---- MODULE Spec2Model ----
(***************************************************************************)
(* Model of the fiber reconciler of src/src/step8-hooks/2-2.jsx: the       *)
(* element builder, the work loop, reconcileChildren, the commit phase,    *)
(* updateDom and useState.                                                 *)
(*                                                                         *)
(* JavaScript values are tagged tuples, so that values of different        *)
(* JavaScript types can be compared:                                       *)
(*   <<"str", s>>  <<"num", n>>  <<"bool", b>>  <<"null">>  <<"undefined">>*)
(*   <<"fn", name, env>>   a function object; env tells closures created   *)
(*                         by different evaluations apart (identity)       *)
(*   <<"object", r>>       an element object with record r                 *)
(* Fibers and host (DOM) nodes live in two heaps (sequences); a reference  *)
(* is an index, 0 is null/undefined.                                       *)
(***************************************************************************)
EXTENDS Integers, Sequences, FiniteSets, TLC

\* ---------------------------------------------------------------- bounds
MaxRenders == 3
MaxBudget == 1
MaxHooks == 3
MaxChildren == 2

\* ---------------------------------------------------------------- values
Str(s) == <<"str", s>>
Num(n) == <<"num", n>>
Bool(b) == <<"bool", b>>
Fn(name, env) == <<"fn", name, env>>
Obj(r) == <<"object", r>>
Null == <<"null">>
Undefined == <<"undefined">>

\* JavaScript truthiness (the tests `a && b`, `!a`, `if (a)`)
Truthy(v) ==
  CASE v[1] = "str" -> v[2] # ""
    [] v[1] = "num" -> v[2] # 0
    [] v[1] = "bool" -> v[2]
    [] v[1] = "null" -> FALSE
    [] v[1] = "undefined" -> FALSE
    [] OTHER -> TRUE

\* typeof v === 'object' (true of null as well)
TypeofObject(v) == v[1] \in {"object", "null"}

\* v instanceof Function
InstanceofFunction(v) == v[1] = "fn"

\* obj[key] of an object given as a function from its keys: undefined when absent
Get(obj, key) == IF key \in DOMAIN obj THEN obj[key] ELSE Undefined

\* obj[key] = v
Put(obj, key, v) ==
  [k \in (DOMAIN obj) \cup {key} |-> IF k = key THEN v ELSE obj[k]]

NoProps == [k \in {} |-> Undefined]

\* elements[index] of a JavaScript array (0-based index): undefined past the end
At(arr, index) == IF index + 1 \in DOMAIN arr THEN arr[index + 1] ELSE Undefined

\* ------------------------------------------------------- element builder
createTextElement(text) ==
  Obj([type |-> Str("TEXT_ELEMENT"),
       props |-> [nodeValue |-> text, children |-> <<>>]])

\* A faulty variant of createElement: null is wrapped as well
createElementWrapsNull(type, props, children) ==
  Obj([type |-> type,
       props |-> Put(props, "children",
                     [i \in DOMAIN children |->
                        IF children[i][1] = "object" THEN children[i]
                        ELSE createTextElement(children[i])])])

createElement(type, props, children) ==
  Obj([type |-> type,
       props |-> Put(props, "children",
                     [i \in DOMAIN children |->
                        IF TypeofObject(children[i]) THEN children[i]
                        ELSE createTextElement(children[i])])])

\* ------------------------------------------------------------ host nodes
\* A host node: tag, the properties assigned to it, the attached listeners
\* (pairs <<event type, handler>>) and the ordered child list.
NewHostNode(tag, props) ==
  [tag |-> tag, props |-> props, listeners |-> {}, children |-> <<>>]

Container == 1

RemoveAt(seq, i) == SubSeq(seq, 1, i - 1) \o SubSeq(seq, i + 1, Len(seq))

IndexOf(seq, x) == CHOOSE i \in DOMAIN seq : seq[i] = x

Contains(seq, x) == \E i \in DOMAIN seq : seq[i] = x

\* A faulty variant of removeChild: the first child is removed
removeFirstChild(doms, parent, node) ==
  [doms EXCEPT ![parent].children = Tail(@)]

\* Node.removeChild: the caller makes sure that node is a child of parent
removeChild(doms, parent, node) ==
  [doms EXCEPT ![parent].children = RemoveAt(@, IndexOf(@, node))]

\* Node.appendChild: a node that is attached somewhere is moved
Detach(doms, node) ==
  [d \in DOMAIN doms |->
     IF Contains(doms[d].children, node)
     THEN [doms[d] EXCEPT !.children = RemoveAt(@, IndexOf(@, node))]
     ELSE doms[d]]

appendChild(doms, parent, node) ==
  [Detach(doms, node) EXCEPT ![parent].children = Append(@, node)]

\* ------------------------------------------------------------- updateDom
\* key.startsWith('on'), over the attribute names the applications use
EventNames == {"onClick"}

\* name.toLowerCase().substring(2)
EventType(name) == CASE name = "onClick" -> "click" [] OTHER -> name

isEvent(key) == key \in EventNames

isProperty(key) == key # "children" /\ ~isEvent(key)

isGone(prev, next, key) == Truthy(Get(prev, key)) /\ ~Truthy(Get(next, key))

isNew(prev, next, key) == Get(prev, key) # Get(next, key)

updateDomNode(node, prevProps, nextProps) ==
  LET removedEvents ==
        {<<EventType(k), prevProps[k]>> :
           k \in {n \in DOMAIN prevProps : isEvent(n) /\ isGone(prevProps, nextProps, n)}}
      addedEvents ==
        {<<EventType(k), nextProps[k]>> :
           k \in {n \in DOMAIN nextProps : isEvent(n) /\ isNew(prevProps, nextProps, n)}}
      goneProps ==
        {n \in DOMAIN prevProps : isProperty(n) /\ isGone(prevProps, nextProps, n)}
      newProps ==
        {n \in DOMAIN nextProps : isProperty(n) /\ isNew(prevProps, nextProps, n)}
  IN  [node EXCEPT
         !.listeners = (@ \ removedEvents) \cup addedEvents,
         !.props = [k \in (DOMAIN @) \cup goneProps \cup newProps |->
                      IF k \in newProps THEN nextProps[k]
                      ELSE IF k \in goneProps THEN Str("")
                      ELSE @[k]]]

updateDom(doms, dom, prevProps, nextProps) ==
  [doms EXCEPT ![dom] = updateDomNode(@, prevProps, nextProps)]

\* ---------------------------------------------------------------- fibers
\* The engine state threaded through the functions below: the two heaps, the
\* module-level variables of the source, and err, the uncaught exception
\* ("none" when the running handler has not thrown).
NoError == "none"

NewFiber(type, props, dom, parent, alternate, effectTag) ==
  [type |-> type, props |-> props, dom |-> dom, parent |-> parent,
   child |-> 0, sibling |-> 0, alternate |-> alternate,
   effectTag |-> effectTag, hooks |-> <<>>]

Throw(S, e) == [S EXCEPT !.err = e]

ElementType(element) ==
  IF element[1] = "object" THEN element[2].type ELSE Undefined

ElementProps(element) ==
  IF element[1] = "object" THEN element[2].props ELSE NoProps

\* ----------------------------------------------------- reconcileChildren
\* Faulty variants of updateFiber: the host node of the old fiber is not reused; the
\* fiber is made as for a placement
updateFiberNewDom(fibers, element, oldFiber, fiber) ==
  NewFiber(ElementType(element), ElementProps(element), 0, fiber, oldFiber, "UPDATE")

updateFiberAsPlacement(fibers, element, oldFiber, fiber) ==
  NewFiber(ElementType(element), ElementProps(element), 0, fiber, 0, "PLACEMENT")

\* The fiber made when the old fiber and the element have the same type
updateFiber(fibers, element, oldFiber, fiber) ==
  NewFiber(ElementType(element), ElementProps(element),
           fibers[oldFiber].dom, fiber, oldFiber, "UPDATE")

\* A faulty variant of placementFiber: the effect tag is left out
placementFiberUntagged(fibers, element, oldFiber, fiber) ==
  NewFiber(ElementType(element), ElementProps(element), 0, fiber, 0, "NONE")

\* A faulty variant of placementFiber: the parent is left out
placementFiberOrphan(fibers, element, oldFiber, fiber) ==
  NewFiber(ElementType(element), ElementProps(element), 0, 0, 0, "PLACEMENT")

\* The fiber made for an element with no old fiber of its type
placementFiber(fibers, element, oldFiber, fiber) ==
  NewFiber(ElementType(element), ElementProps(element), 0, fiber, 0, "PLACEMENT")

\* One iteration of the while loop per call; newFiber is 0 for null.
RECURSIVE reconcileLoop(_, _, _, _, _, _)
reconcileLoop(S, fiber, elements, index, oldFiber, prevSibling) ==
  IF ~(index < Len(elements) \/ oldFiber # 0) THEN S
  ELSE
    LET element == At(elements, index)
        sameType == /\ oldFiber # 0
                    /\ Truthy(element)
                    /\ S.fibers[oldFiber].type = ElementType(element)
        created == sameType \/ Truthy(element)
        newFiber == IF created THEN Len(S.fibers) + 1 ELSE 0
        S1 == IF sameType THEN
                [S EXCEPT !.fibers = Append(@, updateFiber(S.fibers, element, oldFiber, fiber))]
              ELSE IF Truthy(element) THEN
                [S EXCEPT !.fibers = Append(@, placementFiber(S.fibers, element, oldFiber, fiber))]
              ELSE IF oldFiber # 0 THEN
                [S EXCEPT !.fibers[oldFiber].effectTag = "DELETION",
                          !.deletions = Append(@, oldFiber)]
              ELSE S
        nextOld == IF oldFiber # 0 THEN S.fibers[oldFiber].sibling ELSE 0
    IN  IF index = 0 THEN
          reconcileLoop([S1 EXCEPT !.fibers[fiber].child = newFiber],
                        fiber, elements, index + 1, nextOld, newFiber)
        ELSE IF prevSibling = 0 THEN
          \* prevSibling.sibling = newFiber with prevSibling null
          Throw(S1, "TypeError")
        ELSE
          reconcileLoop([S1 EXCEPT !.fibers[prevSibling].sibling = newFiber],
                        fiber, elements, index + 1, nextOld, newFiber)

reconcileChildren(S, fiber, elements) ==
  LET alternate == S.fibers[fiber].alternate
      oldFiber == IF alternate # 0 THEN S.fibers[alternate].child ELSE 0
  IN  reconcileLoop(S, fiber, elements, 0, oldFiber, 0)

\* -------------------------------------------------------------- createDom
HostTag(type) ==
  IF type = Str("TEXT_ELEMENT") THEN "#text"
  ELSE IF type[1] = "str" THEN type[2]
  ELSE type[1]

createDom(fiber) ==
  updateDomNode(
    IF fiber.type = Str("TEXT_ELEMENT")
    THEN NewHostNode("#text", [nodeValue |-> Str("")])
    ELSE NewHostNode(HostTag(fiber.type), NoProps),
    NoProps, fiber.props)

\* A faulty variant of updateHostComponent: the host node of an updated fiber
\* is brought up to date at once, not at the commit
updateHostComponentEager(S, fiber) ==
  reconcileChildren(
    IF S.fibers[fiber].dom = 0 THEN
      [S EXCEPT !.doms = Append(@, createDom(S.fibers[fiber])),
                !.fibers[fiber].dom = Len(S.doms) + 1]
    ELSE IF S.fibers[fiber].alternate # 0 THEN
      [S EXCEPT !.doms = updateDom(@, S.fibers[fiber].dom,
                                   S.fibers[S.fibers[fiber].alternate].props,
                                   S.fibers[fiber].props)]
    ELSE S,
    fiber, S.fibers[fiber].props.children)

updateHostComponent(S, fiber) ==
  reconcileChildren(
    IF S.fibers[fiber].dom = 0 THEN
      [S EXCEPT !.doms = Append(@, createDom(S.fibers[fiber])),
                !.fibers[fiber].dom = Len(S.doms) + 1]
    ELSE S,
    fiber, S.fibers[fiber].props.children)

\* ---------------------------------------------------------------- hooks
\* A faulty variant of useState: a slot without old hook is left undefined
useStateNoDefault(S, initial) ==
  IF S.wipFiber = 0 THEN
    [S |-> Throw(S, "TypeError"), result |-> <<>>]
  ELSE
    LET alternate == S.fibers[S.wipFiber].alternate
        oldHooks == IF alternate # 0 THEN S.fibers[alternate].hooks ELSE <<>>
        hasOld == S.hookIndex + 1 \in DOMAIN oldHooks
        hook == [state |-> IF hasOld THEN oldHooks[S.hookIndex + 1].state
                           ELSE Undefined]
    IN  [S |-> [S EXCEPT !.fibers[S.wipFiber].hooks = Append(@, hook),
                         !.hookIndex = @ + 1],
         result |-> <<hook.state>>]

\* A faulty variant of useState: the old hook is read at index 0, not at
\* hookIndex
useStateFirstSlot(S, initial) ==
  IF S.wipFiber = 0 THEN
    [S |-> Throw(S, "TypeError"), result |-> <<>>]
  ELSE
    LET alternate == S.fibers[S.wipFiber].alternate
        oldHooks == IF alternate # 0 THEN S.fibers[alternate].hooks ELSE <<>>
        hook == [state |-> IF 1 \in DOMAIN oldHooks THEN oldHooks[1].state
                           ELSE initial]
    IN  [S |-> [S EXCEPT !.fibers[S.wipFiber].hooks = Append(@, hook),
                         !.hookIndex = @ + 1],
         result |-> <<hook.state>>]

\* useState: the new state S and the returned array, [hook.state]
useState(S, initial) ==
  IF S.wipFiber = 0 THEN
    \* wipFiber.alternate with wipFiber null
    [S |-> Throw(S, "TypeError"), result |-> <<>>]
  ELSE
    LET alternate == S.fibers[S.wipFiber].alternate
        oldHooks == IF alternate # 0 THEN S.fibers[alternate].hooks ELSE <<>>
        hasOld == S.hookIndex + 1 \in DOMAIN oldHooks
        hook == [state |-> IF hasOld THEN oldHooks[S.hookIndex + 1].state
                           ELSE initial]
    IN  [S |-> [S EXCEPT !.fibers[S.wipFiber].hooks = Append(@, hook),
                         !.hookIndex = @ + 1],
         result |-> <<hook.state>>]

\* ------------------------------------------------ application components
\* The function components of the applications: each takes the state (for
\* its useState calls) and gives the new state and the returned element.
TestFn == Fn("Test", 0)
CounterFn == Fn("Counter", 0)
NilFn == Fn("Nil", 0)

Test(S) ==
  [S |-> S, result |-> createElement(Str("div"), NoProps, <<Str("test")>>)]

\* closures created by one evaluation are new function objects: their env is
\* the fiber being evaluated
Counter(S) ==
  LET u1 == useState(S, Num(0))
      u2 == useState(u1.S, Bool(TRUE))
      \* const [count, setCount] = ...; const [visible, setVisible] = ...
      count == At(u1.result, 0)
      visible == At(u2.result, 0)
      env == S.wipFiber
  IN  [S |-> u2.S,
       result |->
         createElement(Str("div"), NoProps, <<
           createElement(Str("h1"), [onClick |-> Fn("onAddClick", env)],
                         <<Str("Count: "), count>>),
           createElement(Str("button"), [onClick |-> Fn("toggle", env)],
                         <<Str("toggle")>>),
           IF Truthy(visible) THEN createElement(TestFn, NoProps, <<>>)
           ELSE Null >>)]

\* a component that renders nothing
Nil(S) == [S |-> S, result |-> Null]

\* What the closures of the Counter evaluated as fiber env captured: count and
\* visible are the first entries of the arrays useState returned, setCount
\* and setVisible the second
Captured(fibers, env) ==
  [count |-> At(<<fibers[env].hooks[1].state>>, 0),
   setCount |-> At(<<fibers[env].hooks[1].state>>, 1),
   visible |-> At(<<fibers[env].hooks[2].state>>, 0),
   setVisible |-> At(<<fibers[env].hooks[2].state>>, 1)]

\* f(arg) in an event handler: a TypeError when f is not a function
CallValue(S, f, arg) ==
  IF InstanceofFunction(f) THEN S ELSE Throw(S, "TypeError")

\* const onAddClick = () => { setCount(count + 1) }
onAddClick(S, env) ==
  CallValue(S, Captured(S.fibers, env).setCount,
            Num(Captured(S.fibers, env).count[2] + 1))

\* () => setVisible(!visible)
toggle(S, env) ==
  CallValue(S, Captured(S.fibers, env).setVisible,
            Bool(~Truthy(Captured(S.fibers, env).visible)))

\* The host calls a listener
CallListener(S, fn) ==
  CASE fn[2] = "onAddClick" -> onAddClick(S, fn[3])
    [] fn[2] = "toggle" -> toggle(S, fn[3])
    [] OTHER -> S

\* The hook slot and the value a listener hands to the updater it calls
UpdaterCall(fibers, fn) ==
  CASE fn[2] = "onAddClick" ->
         [fiber |-> fn[3], hook |-> 0,
          value |-> Num(Captured(fibers, fn[3]).count[2] + 1)]
    [] OTHER ->
         [fiber |-> fn[3], hook |-> 1,
          value |-> Bool(~Truthy(Captured(fibers, fn[3]).visible))]

CallComponent(S, type) ==
  CASE type = TestFn -> Test(S)
    [] type = CounterFn -> Counter(S)
    [] OTHER -> Nil(S)

\* reconcileChildren(fiber, children) with what the component returned, which
\* an exception thrown by the component skips
reconcileReturned(call, fiber) ==
  IF call.S.err # NoError THEN call.S
  ELSE reconcileChildren(call.S, fiber, <<call.result>>)

\* A faulty variant of updateFunctionComponent: hookIndex is not reset
updateFunctionComponentKeepsCursor(S, fiber) ==
  reconcileReturned(
    CallComponent([S EXCEPT !.wipFiber = fiber,
                            !.fibers[fiber].hooks = <<>>],
                  S.fibers[fiber].type),
    fiber)

updateFunctionComponent(S, fiber) ==
  reconcileReturned(
    CallComponent([S EXCEPT !.wipFiber = fiber,
                            !.hookIndex = 0,
                            !.fibers[fiber].hooks = <<>>],
                  S.fibers[fiber].type),
    fiber)

\* ------------------------------------------------- performNextUnitOfWork
\* A faulty variant of the walk: it does not go up to the parent
NextSiblingNoClimb(fibers, nextFiber) ==
  IF nextFiber = 0 THEN 0 ELSE fibers[nextFiber].sibling

\* while (nextFiber) { if (nextFiber.sibling) return it; nextFiber = parent }
RECURSIVE NextSibling(_, _)
NextSibling(fibers, nextFiber) ==
  IF nextFiber = 0 THEN 0
  ELSE IF fibers[nextFiber].sibling # 0 THEN fibers[nextFiber].sibling
  ELSE NextSibling(fibers, fibers[nextFiber].parent)

\* The fiber performNextUnitOfWork returns (0 for undefined): the child, or
\* the next sibling up the tree
nextUnit(S, fiber) ==
  [S |-> S,
   next |-> IF S.err # NoError THEN 0
            ELSE IF S.fibers[fiber].child # 0 THEN S.fibers[fiber].child
            ELSE NextSibling(S.fibers, fiber)]

\* The call performNextUnitOfWork(fiber) is recorded in visited
visit(S, fiber) == [S EXCEPT !.visited = Append(@, fiber)]

\* A faulty variant of performNextUnitOfWork: every fiber is taken for a host
\* component
performNextUnitOfWorkAsHost(S, fiber) ==
  nextUnit(updateHostComponent(visit(S, fiber), fiber), fiber)

\* the new state and the returned fiber
performNextUnitOfWork(S, fiber) ==
  nextUnit(IF InstanceofFunction(S.fibers[fiber].type)
           THEN updateFunctionComponent(visit(S, fiber), fiber)
           ELSE updateHostComponent(visit(S, fiber), fiber),
           fiber)

\* ----------------------------------------------------------------- commit
RECURSIVE deleteDom(_, _, _)
deleteDom(S, fiber, domParent) ==
  IF fiber = 0 THEN Throw(S, "TypeError")   \* fiber.dom with fiber null
  ELSE IF S.fibers[fiber].dom # 0 THEN
    IF Contains(S.doms[domParent].children, S.fibers[fiber].dom)
    THEN [S EXCEPT !.doms = removeChild(@, domParent, S.fibers[fiber].dom),
                   !.mutations = Append(@, <<"removeChild", domParent,
                                             S.fibers[fiber].dom>>)]
    ELSE Throw(S, "NotFoundError")
  ELSE deleteDom(S, S.fibers[fiber].child, domParent)

\* A faulty variant of the walk: it goes up to the root whatever is on the way
RECURSIVE DomParentFiberRoot(_, _)
DomParentFiberRoot(fibers, domParentFiber) ==
  IF domParentFiber = 0 THEN 0
  ELSE IF fibers[domParentFiber].parent = 0 THEN domParentFiber
  ELSE DomParentFiberRoot(fibers, fibers[domParentFiber].parent)

\* while (!domParentFiber.dom) domParentFiber = domParentFiber.parent;
\* 0 when the walk runs off the tree
RECURSIVE DomParentFiber(_, _)
DomParentFiber(fibers, domParentFiber) ==
  IF domParentFiber = 0 THEN 0
  ELSE IF fibers[domParentFiber].dom # 0 THEN domParentFiber
  ELSE DomParentFiber(fibers, fibers[domParentFiber].parent)

\* A faulty variant of commitWork: it goes on to the child and the sibling of
\* a deleted fiber
RECURSIVE commitWorkThrough(_, _)
commitWorkThrough(S, fiber) ==
  IF S.err # NoError \/ fiber = 0 THEN S
  ELSE IF DomParentFiber(S.fibers, S.fibers[fiber].parent) = 0
  THEN Throw(S, "TypeError")
  ELSE IF S.fibers[fiber].effectTag = "DELETION" THEN
    commitWorkThrough(
      commitWorkThrough(
        deleteDom(S, fiber,
                  S.fibers[DomParentFiber(S.fibers, S.fibers[fiber].parent)].dom),
        S.fibers[fiber].child),
      S.fibers[fiber].sibling)
  ELSE IF S.fibers[fiber].effectTag = "PLACEMENT" /\ S.fibers[fiber].dom # 0 THEN
    commitWorkThrough(
      commitWorkThrough(
        [S EXCEPT
           !.doms = appendChild(@,
                      S.fibers[DomParentFiber(S.fibers, S.fibers[fiber].parent)].dom,
                      S.fibers[fiber].dom),
           !.mutations = Append(@, <<"appendChild",
                      S.fibers[DomParentFiber(S.fibers, S.fibers[fiber].parent)].dom,
                      S.fibers[fiber].dom>>)],
        S.fibers[fiber].child),
      S.fibers[fiber].sibling)
  ELSE IF S.fibers[fiber].effectTag = "UPDATE" /\ S.fibers[fiber].dom # 0 THEN
    commitWorkThrough(
      commitWorkThrough(
        [S EXCEPT
           !.doms = updateDom(@, S.fibers[fiber].dom,
                              S.fibers[S.fibers[fiber].alternate].props,
                              S.fibers[fiber].props),
           !.mutations = Append(@, <<"updateDom", S.fibers[fiber].dom,
                                     S.fibers[fiber].dom>>)],
        S.fibers[fiber].child),
      S.fibers[fiber].sibling)
  ELSE commitWorkThrough(commitWorkThrough(S, S.fibers[fiber].child),
                         S.fibers[fiber].sibling)

RECURSIVE commitWork(_, _)
commitWork(S, fiber) ==
  IF S.err # NoError \/ fiber = 0 THEN S
  ELSE
    LET f == S.fibers[fiber]
        domParentFiber == DomParentFiber(S.fibers, f.parent)
    IN  IF domParentFiber = 0 THEN Throw(S, "TypeError")
        ELSE
          LET domParent == S.fibers[domParentFiber].dom
          IN  IF f.effectTag = "DELETION" THEN deleteDom(S, fiber, domParent)
              ELSE
                LET S1 == IF f.effectTag = "PLACEMENT" /\ f.dom # 0 THEN
                            [S EXCEPT !.doms = appendChild(@, domParent, f.dom),
                                      !.mutations =
                                         Append(@, <<"appendChild", domParent, f.dom>>)]
                          ELSE IF f.effectTag = "UPDATE" /\ f.dom # 0 THEN
                            [S EXCEPT !.doms =
                               updateDom(@, f.dom, S.fibers[f.alternate].props, f.props),
                                      !.mutations =
                                         Append(@, <<"updateDom", f.dom, f.dom>>)]
                          ELSE S
                IN  commitWork(commitWork(S1, f.child), f.sibling)

\* deletions.forEach(commitWork), from position i on
RECURSIVE commitDeletions(_, _)
commitDeletions(S, i) ==
  IF S.err # NoError \/ i > Len(S.deletions) THEN S
  ELSE commitDeletions(commitWork(S, S.deletions[i]), i + 1)

\* commitWork(wipRoot.child)
commitTree(S) == commitWork(S, S.fibers[S.wipRoot].child)

\* oldRoot = wipRoot; wipRoot = null, which an exception thrown before skips
swapRoots(S) ==
  IF S.err # NoError THEN S
  ELSE [S EXCEPT !.oldRoot = S.wipRoot, !.wipRoot = 0]

\* A faulty variant of commitRoot: wipRoot is not cleared
keepRoots(S) ==
  IF S.err # NoError THEN S
  ELSE [S EXCEPT !.oldRoot = S.wipRoot]

\* mutations holds the calls the commit in hand has made to the host so far
beginCommit(S) == [S EXCEPT !.mutations = <<>>]

commitRootKeepsWip(S) ==
  keepRoots(commitTree(commitDeletions(beginCommit(S), 1)))

\* A faulty variant of commitRoot: the tree is committed before the deletions
commitRootTreeFirst(S) ==
  swapRoots(commitDeletions(commitTree(beginCommit(S)), 1))

commitRoot(S) == swapRoots(commitTree(commitDeletions(beginCommit(S), 1)))

\* --------------------------------------------------------------- workLoop
\* A faulty variant of the loop of workLoop: the time is read before each unit,
\* the first one included
RECURSIVE workLoopWhileGated(_, _)

assignNextUnitGated(r, budget) ==
  IF r.S.err # NoError THEN r.S
  ELSE workLoopWhileGated([r.S EXCEPT !.nextUnitOfWork = r.next], budget - 1)

workLoopWhileGated(S, budget) ==
  IF S.nextUnitOfWork = 0 \/ budget = 0 THEN S
  ELSE assignNextUnitGated(performNextUnitOfWork(S, S.nextUnitOfWork), budget)

\* budget: how many calls of idleDeadline.timeRemaining() answer 1ms or more
\* before one answers less.
RECURSIVE workLoopWhile(_, _)

\* nextUnitOfWork = <returned fiber>; shouldYield = timeRemaining() < 1; and
\* the next test of the loop
assignNextUnit(r, budget) ==
  IF r.S.err # NoError THEN r.S
  ELSE IF budget = 0 THEN [r.S EXCEPT !.nextUnitOfWork = r.next]   \* shouldYield
  ELSE workLoopWhile([r.S EXCEPT !.nextUnitOfWork = r.next], budget - 1)

workLoopWhile(S, budget) ==
  IF S.nextUnitOfWork = 0 THEN S
  ELSE assignNextUnit(performNextUnitOfWork(S, S.nextUnitOfWork), budget)

\* if (!nextUnitOfWork && wipRoot) commitRoot()
commitWhenDone(S) ==
  IF S.err = NoError /\ S.nextUnitOfWork = 0 /\ S.wipRoot # 0
  THEN commitRoot(S)
  ELSE S

\* window.requestIdleCallback(workLoop) at the end of workLoop, which an
\* exception thrown before it skips
requestIdleCallback(S) == [S EXCEPT !.armed = (S.err = NoError)]

\* A faulty variant of workLoop: the commit is tested before the loop, so it waits for
\* the tick after the one that processed the last unit
workLoopWhenOk(S, budget) ==
  IF S.err = NoError THEN workLoopWhile(S, budget) ELSE S

workLoopCommitsNextTick(S, budget) ==
  requestIdleCallback(workLoopWhenOk(commitWhenDone(S), budget))

\* The idle callback: the loop, the commit, and the request of the next
\* callback.
workLoop(S, budget) ==
  requestIdleCallback(commitWhenDone(workLoopWhile(S, budget)))

\* Faulty variants of render: the new root is linked to the root in flight; the first
\* unit is processed inside the call
renderFromWip(S, element, container) ==
  [S EXCEPT
     !.fibers = Append(@, NewFiber(Undefined, [children |-> <<element>>], container, 0,
                                   IF S.wipRoot # 0 THEN S.wipRoot ELSE S.oldRoot,
                                   "NONE")),
     !.wipRoot = Len(S.fibers) + 1,
     !.nextUnitOfWork = Len(S.fibers) + 1,
     !.deletions = <<>>]

renderSync(S, element, container) ==
  workLoopWhile(
    [S EXCEPT
       !.fibers = Append(@, NewFiber(Undefined, [children |-> <<element>>],
                                     container, 0, S.oldRoot, "NONE")),
       !.wipRoot = Len(S.fibers) + 1,
       !.nextUnitOfWork = Len(S.fibers) + 1,
       !.deletions = <<>>],
    0)

\* ----------------------------------------------------------------- render
\* A faulty variant of render: deletions is left as it is
renderKeepsDeletions(S, element, container) ==
  [S EXCEPT
     !.fibers = Append(@, NewFiber(Undefined, [children |-> <<element>>],
                                   container, 0, S.oldRoot, "NONE")),
     !.wipRoot = Len(S.fibers) + 1,
     !.nextUnitOfWork = Len(S.fibers) + 1]

render(S, element, container) ==
  [S EXCEPT
     !.fibers = Append(@, NewFiber(Undefined, [children |-> <<element>>],
                                   container, 0, S.oldRoot, "NONE")),
     !.wipRoot = Len(S.fibers) + 1,
     !.nextUnitOfWork = Len(S.fibers) + 1,
     !.deletions = <<>>]

\* ----------------------------------------------------------- applications
H(tag, props, children) == createElement(Str(tag), props, children)

DivHi == H("div", [title |-> Str("a")], <<Str("hi")>>)
DivBye == H("div", [title |-> Str("a")], <<Str("bye")>>)
ParHi == H("p", NoProps, <<Str("hi")>>)
DivHiB == H("div", [title |-> Str("a")], <<Str("hi"), H("b", NoProps, <<>>)>>)
Nested == H("div", NoProps, <<H("p", NoProps, <<Str("x")>>),
                              H("q", NoProps, <<createElement(NilFn, NoProps, <<>>)>>)>>)
Flat == H("div", NoProps, <<H("p", NoProps, <<>>), H("q", NoProps, <<>>), Str("y")>>)
CounterApp == createElement(CounterFn, NoProps, <<>>)
\* a property with a falsy value, no property, and an element whose type is null
Zero == H("div", [tabIndex |-> Num(0), title |-> Str("a")], <<>>)
Plain == H("div", NoProps, <<>>)
NullKind == createElement(Null, NoProps, <<>>)
\* a child that has a child of its own, and a child that is a component
Boxed == H("div", NoProps, <<H("p", NoProps, <<Str("x")>>)>>)
WithTest == H("div", NoProps, <<createElement(TestFn, NoProps, <<>>)>>)

\* What each application passes to render over its life
Apps == << {DivHi, DivBye, ParHi, DivHiB},
           {Nested, Flat, DivHi},
           {CounterApp, DivHi},
           {Zero, Plain, NullKind},
           {Plain, Boxed, WithTest} >>

\* ------------------------------------------------------------------ state
\* err is the exception an idle callback ended with, thrown the exception the
\* last call by the application or of a listener ended with; setStateCall is
\* the last call a listener made to an updater (at most one entry); visited
\* holds the fibers performNextUnitOfWork was called with since the last call
\* of render, mutations the calls of the last commit to the host, built the
\* last call of createElement and what it returned (at most one entry).
VARIABLES fibers, doms, deletions, nextUnitOfWork, oldRoot, wipRoot,
          wipFiber, hookIndex, err, armed, app, renders, thrown, setStateCall,
          visited, mutations, built

vars == <<fibers, doms, deletions, nextUnitOfWork, oldRoot, wipRoot,
          wipFiber, hookIndex, err, armed, app, renders, thrown, setStateCall,
          visited, mutations, built>>

State ==
  [fibers |-> fibers, doms |-> doms, deletions |-> deletions,
   nextUnitOfWork |-> nextUnitOfWork, oldRoot |-> oldRoot, wipRoot |-> wipRoot,
   wipFiber |-> wipFiber, hookIndex |-> hookIndex, err |-> err, armed |-> armed,
   visited |-> visited, mutations |-> mutations]

Becomes(S) ==
  /\ fibers' = S.fibers
  /\ doms' = S.doms
  /\ deletions' = S.deletions
  /\ nextUnitOfWork' = S.nextUnitOfWork
  /\ oldRoot' = S.oldRoot
  /\ wipRoot' = S.wipRoot
  /\ wipFiber' = S.wipFiber
  /\ hookIndex' = S.hookIndex
  /\ err' = S.err
  /\ armed' = S.armed
  /\ visited' = S.visited
  /\ mutations' = S.mutations

\* The module has been loaded: the globals are null, the container is empty
\* and the first idle callback is requested.
Init ==
  /\ fibers = <<>>
  /\ doms = <<NewHostNode("container", NoProps)>>
  /\ deletions = <<>>
  /\ nextUnitOfWork = 0
  /\ oldRoot = 0
  /\ wipRoot = 0
  /\ wipFiber = 0
  /\ hookIndex = 0
  /\ err = NoError
  /\ armed = TRUE
  /\ app \in DOMAIN Apps
  /\ renders = 0
  /\ thrown = NoError
  /\ setStateCall = <<>>
  /\ visited = <<>>
  /\ mutations = <<>>
  /\ built = <<>>

\* The application calls render(element, container)
Render ==
  /\ renders < MaxRenders
  /\ \E element \in Apps[app] :
       Becomes(render([State EXCEPT !.visited = <<>>], element, Container))
  /\ renders' = renders + 1
  /\ thrown' = NoError
  /\ UNCHANGED <<app, setStateCall, built>>

\* The host runs the requested idle callback
Tick ==
  /\ armed
  /\ \E budget \in 0..MaxBudget : Becomes(workLoop(State, budget))
  /\ UNCHANGED <<app, renders, thrown, setStateCall, built>>

\* The idle callback of a deadline that answers 1ms or more budget times
TickWith(budget) ==
  /\ armed
  /\ UNCHANGED <<app, renders, thrown, setStateCall, built>>
  /\ Becomes(workLoop(State, budget))

Next == Render \/ Tick

Spec == Init /\ [][Next]_vars

\* The state a call by the application or of a listener starts from and
\* leaves: its exception goes to its caller, not to the idle callback
Calling == [State EXCEPT !.err = NoError]

Returns(S) ==
  /\ fibers' = S.fibers
  /\ doms' = S.doms
  /\ deletions' = S.deletions
  /\ nextUnitOfWork' = S.nextUnitOfWork
  /\ oldRoot' = S.oldRoot
  /\ wipRoot' = S.wipRoot
  /\ wipFiber' = S.wipFiber
  /\ hookIndex' = S.hookIndex
  /\ thrown' = S.err
  /\ visited' = S.visited
  /\ mutations' = S.mutations
  /\ UNCHANGED <<err, armed>>

\* The user clicks an attached host node: the host calls one of its listeners
Click ==
  /\ \E d \in DOMAIN doms : \E l \in doms[d].listeners :
       /\ \E p \in DOMAIN doms : Contains(doms[p].children, d)
       /\ l[1] = "click"
       /\ Returns(CallListener(Calling, l[2]))
       /\ setStateCall' = <<UpdaterCall(fibers, l[2])>>
  /\ UNCHANGED <<app, renders, built>>

\* The application calls useState outside the evaluation of a component
UseStateOutside ==
  /\ wipFiber # 0 => Len(fibers[wipFiber].hooks) < MaxHooks
  /\ \E initial \in {Num(7)} : Returns(useState(Calling, initial).S)
  /\ UNCHANGED <<app, renders, setStateCall, built>>

NextOfApp == Render \/ Tick \/ Click \/ UseStateOutside

\* Spec with the clicks of the user and the stray calls of useState
AppSpec == Init /\ [][NextOfApp]_vars

\* -------------------------------------------------- the builder on its own
\* What the application may pass to createElement: a tag or a component, with
\* or without attributes, and up to MaxChildren children of every type a JSX
\* expression may have.
Kinds == {Str("div"), CounterFn}
AttributeSets == {NoProps, [title |-> Str("a")]}
ChildValues == {Str("a"), Num(0), Bool(FALSE), Null, Undefined, Plain}

RECURSIVE ChildLists(_)
ChildLists(n) ==
  IF n = 0 THEN {<<>>}
  ELSE ChildLists(n - 1) \cup
       {Append(c, v) : c \in {x \in ChildLists(n - 1) : Len(x) = n - 1},
                       v \in ChildValues}

\* The application calls createElement(type, props, ...children)
Build ==
  /\ \E type \in Kinds, props \in AttributeSets, children \in ChildLists(MaxChildren) :
       built' = <<[type |-> type, props |-> props, children |-> children,
                   node |-> createElement(type, props, children)]>>
  /\ UNCHANGED <<fibers, doms, deletions, nextUnitOfWork, oldRoot, wipRoot,
                 wipFiber, hookIndex, err, armed, app, renders, thrown,
                 setStateCall, visited, mutations>>

BuilderSpec == Init /\ [][Build]_vars

\* ------------------------------------------------------------------ views
\* The fibers of the tree below root: root and everything reached from its
\* child by child and sibling links
RECURSIVE Chain(_, _)
Chain(fs, f) ==
  IF f = 0 THEN {}
  ELSE {f} \cup Chain(fs, fs[f].child) \cup Chain(fs, fs[f].sibling)

Tree(fs, root) == IF root = 0 THEN {} ELSE {root} \cup Chain(fs, fs[root].child)

\* The host nodes attached under host node d (d excluded)
RECURSIVE Below(_, _)
Below(ds, d) ==
  UNION {{ds[d].children[i]} \cup Below(ds, ds[d].children[i]) :
           i \in DOMAIN ds[d].children}

\* What the user sees: the container and every host node attached under it,
\* with tag, properties, listeners and child list
HostView(ds) == [d \in {Container} \cup Below(ds, Container) |-> ds[d]]

\* Nesting and sibling order of the host tree at d
RECURSIVE HostShape(_, _)
HostShape(ds, d) ==
  [tag |-> ds[d].tag,
   children |-> [i \in DOMAIN ds[d].children |-> HostShape(ds, ds[d].children[i])]]

\* Nesting and sibling order of a description without components
RECURSIVE DescriptionShape(_)
DescriptionShape(element) ==
  [tag |-> HostTag(element[2].type),
   children |-> [i \in DOMAIN element[2].props.children |->
                   DescriptionShape(element[2].props.children[i])]]

RECURSIVE ComponentFree(_)
ComponentFree(element) ==
  /\ element[1] = "object"
  /\ ~InstanceofFunction(element[2].type)
  /\ \A i \in DOMAIN element[2].props.children :
       ComponentFree(element[2].props.children[i])

\* The description a root fiber was rendered from
Description(fs, root) == fs[root].props.children[1]

\* A step in which commitRoot ran to its end
Committed == wipRoot # 0 /\ oldRoot' = wipRoot /\ wipRoot' = 0

\* A step that is a call of render
Rendered == renders' = renders + 1

\* ----------------------------------------------------------------- claims

\* C1: atomic commit. The host tree under the container changes only in a
\* step in which commitRoot ran to completion: whenever control is back with
\* the host, the tree is that of the previous commit or the full result of
\* the latest one.
AtomicCommit ==
  [][HostView(doms') # HostView(doms) => Committed]_vars

\* C2: structural round trip. Whenever the committed description has no
\* component, the host tree under the container has exactly its nesting and
\* sibling order.
StructuralRoundTrip ==
  (oldRoot # 0 /\ ComponentFree(Description(fibers, oldRoot)))
    => HostShape(doms, Container).children
         = <<DescriptionShape(Description(fibers, oldRoot))>>

\* C3: the committed tree mirrors the host. The host nodes attached under the
\* container are exactly the host nodes of the units of the currentRoot tree.
CommittedTreeMirrorsHost ==
  oldRoot # 0 =>
    {Container} \cup Below(doms, Container)
      = {fibers[f].dom : f \in Tree(fibers, oldRoot)} \ {0}

\* The host node a deleted fiber stands for: its own, or that of the first
\* descendant on the child chain that has one (0 when there is none)
RECURSIVE FirstHost(_, _)
FirstHost(fs, f) ==
  IF f = 0 THEN 0
  ELSE IF fs[f].dom # 0 THEN fs[f].dom
  ELSE FirstHost(fs, fs[f].child)

\* The root fibers of passes that were superseded before their commit
RECURSIVE Alternates(_, _)
Alternates(fs, f) ==
  IF f = 0 THEN {} ELSE {f} \cup Alternates(fs, fs[f].alternate)

AbandonedRoots ==
  {r \in DOMAIN fibers : fibers[r].parent = 0 /\ r # wipRoot}
    \ Alternates(fibers, IF wipRoot # 0 THEN wipRoot ELSE oldRoot)

\* C4: restart policy. A render during a pass in flight links the new root to
\* the last committed root, resets nextUnit to the new root and empties the
\* deletion set; and what a commit removes from or adds to the host was
\* collected by the pass it commits, never by an abandoned one.
RestartPolicy ==
  [][/\ (Rendered /\ wipRoot # 0) =>
          /\ fibers'[wipRoot'].alternate = oldRoot
          /\ wipRoot' # wipRoot
          /\ oldRoot # wipRoot
          /\ nextUnitOfWork' = wipRoot'
          /\ deletions' = <<>>
     /\ Committed =>
          /\ \A f \in Tree(fibers', oldRoot') : f >= oldRoot'
          /\ \A i \in DOMAIN deletions' :
               \E w \in Tree(fibers', oldRoot') :
                 /\ fibers'[w].alternate # 0
                 /\ fibers'[w].alternate = fibers'[deletions'[i]].parent
          /\ \A d \in Below(doms', Container) \ Below(doms, Container) :
               \E f \in Tree(fibers', oldRoot') :
                 fibers'[f].dom = d /\ fibers'[f].effectTag = "PLACEMENT"
          /\ \A d \in Below(doms, Container) \ Below(doms', Container) :
               \E i \in DOMAIN deletions' :
                 LET h == FirstHost(fibers', deletions'[i])
                 IN  h # 0 /\ d \in {h} \cup Below(doms, h)
    ]_vars

\* C4 witness: a pass was abandoned after it had tagged a committed unit with
\* DELETION, a later pass was committed, and that unit's host node is still
\* attached.
RestartThenCommit ==
  /\ wipRoot = 0
  /\ err = NoError
  /\ \E r \in AbandonedRoots : r < oldRoot
  /\ \E f \in Tree(fibers, oldRoot) \cup Tree(fibers, fibers[oldRoot].alternate) :
       /\ fibers[f].effectTag = "DELETION"
       /\ fibers[f].dom \in Below(doms, Container)

\* C5: generation invariant. wipRoot is set only by render and cleared only by
\* the commit that makes it currentRoot; while it is set it is a root other
\* than currentRoot whose alternate is currentRoot, and while it is null no
\* unit of work is pending.
GenerationInvariant ==
  /\ [](/\ wipRoot # 0 => (wipRoot # oldRoot /\ fibers[wipRoot].alternate = oldRoot)
        /\ wipRoot = 0 => nextUnitOfWork = 0)
  /\ [][/\ (wipRoot = 0 /\ wipRoot' # 0) => Rendered
        /\ (wipRoot # 0 /\ wipRoot' = 0) => oldRoot' = wipRoot
        /\ (oldRoot' # oldRoot) => Committed
       ]_vars

\* C5 witness: a second generation is being built on a committed one
SecondGenerationInFlight ==
  /\ oldRoot # 0
  /\ wipRoot # 0
  /\ nextUnitOfWork # 0
  /\ nextUnitOfWork # wipRoot

\* C6: commit runs once per generation, in the tick in which nextUnit becomes
\* null (commitRoot ran: it finished or it threw), whatever the budget; a tick
\* with no pending root changes neither the host nor currentRoot; and a root
\* is committed at most once.
CommitOncePerGeneration ==
  [][~Rendered =>
       /\ (wipRoot # 0 /\ nextUnitOfWork' = 0) => (Committed \/ err' # NoError)
       /\ wipRoot = 0 => (HostView(doms') = HostView(doms) /\ oldRoot' = oldRoot)
       /\ oldRoot' # oldRoot => (Committed /\ oldRoot' > oldRoot)
    ]_vars

\* C6 witness: a generation was committed and the loop idles
CommittedAndIdle ==
  /\ oldRoot # 0
  /\ wipRoot = 0
  /\ nextUnitOfWork = 0
  /\ armed
  /\ Below(doms, Container) # {}

\* C7: render is asynchronous. The call adds the new root fiber and sets
\* wipRoot, nextUnit and the deletion set; the host nodes, currentRoot and
\* every existing fiber are as before when it returns.
RenderIsAsynchronous ==
  [][Rendered =>
       /\ doms' = doms
       /\ HostView(doms') = HostView(doms)
       /\ oldRoot' = oldRoot
       /\ Len(fibers') = Len(fibers) + 1
       /\ SubSeq(fibers', 1, Len(fibers)) = fibers
       /\ wipRoot' = Len(fibers')
       /\ nextUnitOfWork' = wipRoot'
       /\ deletions' = <<>>
       /\ UNCHANGED <<wipFiber, hookIndex, err, armed>>
    ]_vars

\* C7 witness: render has just returned, with a committed tree on the host
RenderReturned ==
  /\ oldRoot # 0
  /\ wipRoot # 0
  /\ nextUnitOfWork = wipRoot
  /\ fibers[wipRoot].child = 0
  /\ Below(doms, Container) # {}

\* C8: the work loop never stops. After every idle callback, and so in every
\* state, the next callback is requested.
AlwaysRearmed == armed

\* Whether evaluating the description twice gives the same attribute values:
\* it has no component that creates handler functions when it is evaluated
RECURSIVE ClosureFree(_)
ClosureFree(element) ==
  \/ element[1] # "object"
  \/ /\ element[2].type # CounterFn
     /\ \A i \in DOMAIN element[2].props.children :
          ClosureFree(element[2].props.children[i])

\* A step that commits the description that was committed last
SameDescriptionCommitted ==
  /\ Committed
  /\ oldRoot # 0
  /\ Description(fibers', oldRoot') = Description(fibers, oldRoot)

IdempotentCommit ==
  /\ \A f \in Tree(fibers', oldRoot') : fibers'[f].effectTag # "PLACEMENT"
  /\ deletions' = <<>>
  /\ HostView(doms') = HostView(doms)

RECURSIVE BlankText(_)
BlankText(element) ==
  IF element[1] # "object" THEN element
  ELSE IF element[2].type = Str("TEXT_ELEMENT")
  THEN Obj([element[2] EXCEPT !.props.nodeValue = Str("")])
  ELSE Obj([element[2] EXCEPT !.props.children =
              [i \in DOMAIN @ |-> BlankText(@[i])]])

\* The number of text payloads of a description
RECURSIVE TextCount(_)
RECURSIVE TextCountFrom(_, _)
TextCountFrom(children, i) ==
  IF i > Len(children) THEN 0
  ELSE TextCount(children[i]) + TextCountFrom(children, i + 1)

TextCount(element) ==
  IF element[1] # "object" THEN 0
  ELSE IF element[2].type = Str("TEXT_ELEMENT") THEN 1
  ELSE TextCountFrom(element[2].props.children, 1)

\* Scenario B: e2 is e1 with its one text payload changed
OnlyTextChanged(e1, e2) ==
  /\ e1 # e2
  /\ ComponentFree(e1)
  /\ ComponentFree(e2)
  /\ BlankText(e1) = BlankText(e2)
  /\ TextCount(e1) = 1

TextChangeCommitted ==
  /\ Committed
  /\ oldRoot # 0
  /\ OnlyTextChanged(Description(fibers, oldRoot), Description(fibers', oldRoot'))

\* Every fiber made from an old fiber has the host node of that fiber
HostNodeReused ==
  \A f \in DOMAIN fibers :
    (fibers[f].alternate # 0 /\ fibers[f].parent # 0) =>
      /\ fibers[f].dom = fibers[fibers[f].alternate].dom
      /\ fibers[f].type = fibers[fibers[f].alternate].type

\* Every host node but the container was created for a unit made by the
\* placement branch
CreatedForPlacementOnly ==
  \A d \in DOMAIN doms \ {Container} :
    \E f \in DOMAIN fibers :
      /\ fibers[f].dom = d
      /\ fibers[f].alternate = 0
      /\ fibers[f].parent # 0
      /\ fibers[f].effectTag \in {"PLACEMENT", "DELETION"}

UpdateTagged(fs, root) == {f \in Tree(fs, root) : fs[f].effectTag = "UPDATE"}

\* C10 as claimed: a re-render that changes one text payload gives exactly one
\* UPDATE unit, the text unit; host nodes are reused by units of equal kind
\* and created for PLACEMENT units only.
SingleUpdateOnTextChange ==
  /\ [](HostNodeReused /\ CreatedForPlacementOnly)
  /\ [][TextChangeCommitted =>
          /\ Cardinality(UpdateTagged(fibers', oldRoot')) = 1
          /\ \A f \in UpdateTagged(fibers', oldRoot') :
               fibers'[f].type = Str("TEXT_ELEMENT")
       ]_vars

\* C10 amended: such a re-render tags every unit below the root UPDATE (the
\* enclosing units too, with unchanged values); exactly one host node changes,
\* the text node, and no host node is added, removed or replaced; host nodes
\* are reused by units of equal kind and created for PLACEMENT units only.
HostIdentityOnUpdate ==
  /\ [](HostNodeReused /\ CreatedForPlacementOnly)
  /\ [][TextChangeCommitted =>
          /\ UpdateTagged(fibers', oldRoot') = Tree(fibers', oldRoot') \ {oldRoot'}
          /\ deletions' = <<>>
          /\ DOMAIN HostView(doms') = DOMAIN HostView(doms)
          /\ \E t \in UpdateTagged(fibers', oldRoot') :
               /\ fibers'[t].type = Str("TEXT_ELEMENT")
               /\ doms'[fibers'[t].dom].props.nodeValue = fibers'[t].props.nodeValue
               /\ {d \in DOMAIN HostView(doms) : doms'[d] # doms[d]} = {fibers'[t].dom}
       ]_vars

\* C10 witness: the text of a committed description has been changed by a
\* committed re-render
TextChangeWasCommitted ==
  /\ wipRoot = 0
  /\ oldRoot # 0
  /\ err = NoError
  /\ fibers[oldRoot].alternate # 0
  /\ OnlyTextChanged(Description(fibers, fibers[oldRoot].alternate),
                     Description(fibers, oldRoot))

\* e2 is e1 with the last child of one of its lists removed
RECURSIVE LastChildRemoved(_, _)
LastChildRemoved(e1, e2) ==
  /\ e1[1] = "object"
  /\ e2[1] = "object"
  /\ e1[2].type = e2[2].type
  /\ [e1[2].props EXCEPT !.children = <<>>] = [e2[2].props EXCEPT !.children = <<>>]
  /\ \/ /\ e1[2].props.children # <<>>
        /\ e2[2].props.children
             = SubSeq(e1[2].props.children, 1, Len(e1[2].props.children) - 1)
     \/ /\ Len(e1[2].props.children) = Len(e2[2].props.children)
        /\ \E i \in DOMAIN e1[2].props.children :
             /\ LastChildRemoved(e1[2].props.children[i], e2[2].props.children[i])
             /\ \A j \in DOMAIN e1[2].props.children \ {i} :
                  e1[2].props.children[j] = e2[2].props.children[j]

\* The host node whose child list holds d
HostParent(ds, d) == CHOOSE p \in DOMAIN ds : Contains(ds[p].children, d)

\* A step that commits a description that is the committed one without the
\* last child of a list
LastChildRemovalCommitted ==
  /\ Committed
  /\ oldRoot # 0
  /\ ComponentFree(Description(fibers, oldRoot))
  /\ LastChildRemoved(Description(fibers, oldRoot), Description(fibers', oldRoot'))

\* What such a commit does, given the one unit x of the deletion set
OnlyLastChildDeleted(x) ==
  /\ x \in Tree(fibers, oldRoot)
  /\ fibers[x].sibling = 0
  /\ fibers'[x].effectTag = "DELETION"
  /\ fibers[x].dom \in Below(doms, Container)
  /\ Below(doms', Container)
       = Below(doms, Container) \ ({fibers[x].dom} \cup Below(doms, fibers[x].dom))
  /\ \A d \in Below(doms', Container) \cup {Container} :
       IF d = HostParent(doms, fibers[x].dom)
       THEN doms'[d] = [doms[d] EXCEPT
                          !.children = SubSeq(@, 1, Len(@) - 1)]
       ELSE doms'[d] = doms[d]

\* C11: Scenario C. A re-render that removes the last child of a list puts
\* exactly one unit in the deletion set, that child, tagged DELETION; the
\* commit removes its host node (the last of its parent's child list) and
\* leaves every other host node, the earlier siblings among them, as it was.
LastChildDeletion ==
  [][LastChildRemovalCommitted =>
       /\ Len(deletions') = 1
       /\ OnlyLastChildDeleted(deletions'[1])
    ]_vars

\* C11 witness: the last child of a list of two was removed by a committed
\* re-render, and the first is still attached
LastChildWasRemoved ==
  /\ wipRoot = 0
  /\ oldRoot # 0
  /\ err = NoError
  /\ fibers[oldRoot].alternate # 0
  /\ LastChildRemoved(Description(fibers, fibers[oldRoot].alternate),
                      Description(fibers, oldRoot))
  /\ Len(deletions) = 1
  /\ fibers[deletions[1]].dom \notin Below(doms, Container)
  /\ Cardinality(Below(doms, Container)) >= 2

\* A step that commits the first generation
InitialCommit == Committed /\ oldRoot = 0

\* The units of a tree, root excluded, that stand for host nodes
HostUnits(fs, root) ==
  {f \in Tree(fs, root) \ {root} : ~InstanceofFunction(fs[f].type)}

\* Every host-kind unit of the tree has a host node of its own, attached
\* under the container, and there is no other host node there
OneHostNodePerHostUnit(fs, root, ds) ==
  /\ \A f \in Tree(fs, root) \ HostUnits(fs, root) : f = root \/ fs[f].dom = 0
  /\ \A f \in HostUnits(fs, root) : fs[f].dom \in Below(ds, Container)
  /\ \A f, g \in HostUnits(fs, root) : fs[f].dom = fs[g].dom => f = g
  /\ Cardinality(Below(ds, Container)) = Cardinality(HostUnits(fs, root))

\* The container holds one div that holds one text node with payload "hi"
DivHoldsHi(ds) ==
  /\ Len(ds[Container].children) = 1
  /\ ds[ds[Container].children[1]].tag = "div"
  /\ Len(ds[ds[Container].children[1]].children) = 1
  /\ LET t == ds[ds[ds[Container].children[1]].children[1]]
     IN  t.tag = "#text" /\ t.props.nodeValue = Str("hi") /\ t.children = <<>>

\* C12: Scenario A. The commit of the first generation finds every unit below
\* the root tagged PLACEMENT and the deletion set empty, attaches one host node
\* per host-kind unit and no other, and for div["hi"] leaves the container
\* with one div holding one text node "hi".
InitialRender ==
  [][InitialCommit =>
       /\ \A f \in Tree(fibers', oldRoot') \ {oldRoot'} :
            fibers'[f].effectTag = "PLACEMENT"
       /\ deletions' = <<>>
       /\ Below(doms, Container) = {}
       /\ OneHostNodePerHostUnit(fibers', oldRoot', doms')
       /\ Description(fibers', oldRoot') = DivHi => DivHoldsHi(doms')
    ]_vars

\* C12 witness: div["hi"] is the first generation committed
FirstGenerationCommitted ==
  /\ oldRoot # 0
  /\ wipRoot = 0
  /\ fibers[oldRoot].alternate = 0
  /\ Description(fibers, oldRoot) = DivHi
  /\ DivHoldsHi(doms)

\* The listeners the attributes of a unit ask for: one per event attribute
ListenersOf(props) ==
  {<<EventType(k), props[k]>> : k \in {n \in DOMAIN props : isEvent(n)}}

\* C13: event-binding reconciliation. The listeners attached to the host node
\* of every committed unit are exactly the handlers of the unit's attributes,
\* one per event attribute: a handler that is gone or has changed was
\* detached, a new or changed one attached.
ListenersMatchAttributes ==
  oldRoot # 0 =>
    \A f \in HostUnits(fibers, oldRoot) :
      fibers[f].dom # 0 =>
        doms[fibers[f].dom].listeners = ListenersOf(fibers[f].props)

\* C14: plain-property reconciliation. On the host node of every committed
\* unit each plain property of the unit's attributes has the value the
\* attributes give it, every property set by earlier attributes and absent now
\* has the empty value, whatever it was, and children is not set.
PlainPropertiesMatchAttributes ==
  oldRoot # 0 =>
    \A f \in HostUnits(fibers, oldRoot) :
      fibers[f].dom # 0 =>
        /\ "children" \notin DOMAIN doms[fibers[f].dom].props
        /\ \A k \in DOMAIN fibers[f].props :
             isProperty(k) =>
               /\ k \in DOMAIN doms[fibers[f].dom].props
               /\ doms[fibers[f].dom].props[k] = fibers[f].props[k]
        /\ \A k \in DOMAIN doms[fibers[f].dom].props \ DOMAIN fibers[f].props :
             doms[fibers[f].dom].props[k] = Str("")

\* The defaults Counter passes to useState, in call order
CounterDefaults == <<Num(0), Bool(TRUE)>>

\* Slot i of an evaluated Counter unit is seeded from slot i of the
\* alternate's hooks when there is one, else from the i-th default
SeededByPosition(f) ==
  \A i \in DOMAIN fibers[f].hooks :
    fibers[f].hooks[i].state =
      IF fibers[f].alternate # 0 /\ i \in DOMAIN fibers[fibers[f].alternate].hooks
      THEN fibers[fibers[f].alternate].hooks[i].state
      ELSE CounterDefaults[i]

\* C15: positional hook continuity (Scenario D). Every Counter unit, in every
\* generation, is either not yet evaluated (no slot) or has two slots, each
\* seeded from the slot of the same position of its alternate, else from the
\* default of the call; slot 0 holds count and slot 1 visible.
PositionalHooks ==
  \A f \in DOMAIN fibers :
    fibers[f].type = CounterFn =>
      /\ Len(fibers[f].hooks) \in {0, 2}
      /\ SeededByPosition(f)
      /\ Len(fibers[f].hooks) = 2 =>
           /\ fibers[f].hooks[1].state[1] = "num"
           /\ fibers[f].hooks[2].state[1] = "bool"

\* C15 witness: a Counter of the third generation, evaluated on the hooks of
\* its alternate, is committed next to a conditionally rendered Test
ThirdCounterGeneration ==
  /\ oldRoot # 0
  /\ wipRoot = 0
  /\ \E f \in Tree(fibers, oldRoot) :
       /\ fibers[f].type = CounterFn
       /\ Len(fibers[f].hooks) = 2
       /\ fibers[f].alternate # 0
       /\ Len(fibers[fibers[f].alternate].hooks) = 2
       /\ fibers[fibers[f].alternate].alternate # 0
  /\ \E t \in Tree(fibers, oldRoot) : fibers[t].type = TestFn

\* The Counter units that have been evaluated
EvaluatedCounters ==
  {f \in DOMAIN fibers : fibers[f].type = CounterFn /\ Len(fibers[f].hooks) >= 2}

\* A step in which a listener called an updater
UpdaterCalled == setStateCall' # setStateCall

\* C16: useState returns the current value and an updater (what Counter binds
\* to setCount and setVisible are functions), and a call of the updater
\* returns normally having scheduled a new pass from the committed root:
\* wipRoot is a new root whose alternate is currentRoot, nextUnit is wipRoot,
\* the deletion set is empty and the attributes of the existing units are
\* untouched.
UpdaterSchedulesRender ==
  /\ [](\A f \in EvaluatedCounters :
          /\ Captured(fibers, f).count = fibers[f].hooks[1].state
          /\ InstanceofFunction(Captured(fibers, f).setCount)
          /\ InstanceofFunction(Captured(fibers, f).setVisible))
  /\ [][UpdaterCalled =>
          /\ thrown' = NoError
          /\ wipRoot' = Len(fibers')
          /\ wipRoot' # wipRoot
          /\ fibers'[wipRoot'].alternate = oldRoot
          /\ nextUnitOfWork' = wipRoot'
          /\ deletions' = <<>>
          /\ \A f \in DOMAIN fibers : fibers'[f].props = fibers[f].props
       ]_vars

\* Whether unit g is c or was made from c within two generations
WithinTwoGenerations(fs, g, c) ==
  \/ fs[g].alternate = c
  \/ fs[g].alternate # 0 /\ fs[fs[g].alternate].alternate = c

\* C17: state continuity. Once a listener has called the updater of a slot
\* of a Counter unit with a value, every generation committed within the next
\* two in which a Counter is at that position has this value in the slot.
StateContinuity ==
  [][(Committed /\ setStateCall # <<>>) =>
       \A g \in Tree(fibers', oldRoot') :
         (/\ fibers'[g].type = CounterFn
          /\ WithinTwoGenerations(fibers', g, setStateCall[1].fiber))
           => fibers'[g].hooks[setStateCall[1].hook + 1].state = setStateCall[1].value
    ]_vars

\* C18: reconciliation never fails on a shape mismatch. Whatever the committed
\* child chain and the new child list, no idle callback ends with an
\* exception of reconcileChildren or of the commit, and every unit below a
\* root is classified as update, placement or deletion.
ReconciliationNeverFails ==
  /\ err = NoError
  /\ \A f \in DOMAIN fibers :
       fibers[f].parent # 0 => fibers[f].effectTag \in {"UPDATE", "PLACEMENT", "DELETION"}

\* C19: a call of useState outside the evaluation of a component is reported
\* as an error and adds no slot: the hooks list of every unit holds only the
\* slots of the calls its own evaluation made (two for Counter, none for the
\* other units).
HooksOnlyFromEvaluation ==
  \A f \in DOMAIN fibers :
    Len(fibers[f].hooks) \in (IF fibers[f].type = CounterFn THEN {0, 2} ELSE {0})

\* C20: a description node whose kind is null is a fatal error when its host
\* node is to be created, never a host node: no unit of kind null has a host
\* node, and no host node is made of kind null.
NullKindIsFatal ==
  /\ \A f \in DOMAIN fibers :
       (fibers[f].parent # 0 /\ fibers[f].type = Null) => fibers[f].dom = 0
  /\ \A d \in DOMAIN doms : doms[d].tag # "null"
\* ------------------------------------------------------------------- C21
IsDescriptionNode(v) == v[1] = "object"

\* entry is a text element with the payload child and no children
IsTextOf(entry, child) ==
  /\ IsDescriptionNode(entry)
  /\ entry[2].type = Str("TEXT_ELEMENT")
  /\ DOMAIN entry[2].props = {"nodeValue", "children"}
  /\ entry[2].props.nodeValue = child
  /\ entry[2].props.children = <<>>

\* The node has the given kind and attributes and as many children as given
BuiltAround(b) ==
  /\ IsDescriptionNode(b.node)
  /\ b.node[2].type = b.type
  /\ DOMAIN b.node[2].props = DOMAIN b.props \cup {"children"}
  /\ \A k \in DOMAIN b.props : b.node[2].props[k] = b.props[k]
  /\ DOMAIN b.node[2].props.children = DOMAIN b.children

\* C21: createElement returns a node whose children have the length and the
\* order of the given children, every description node among them kept as it
\* is and every other child (null included) wrapped as a text element, so
\* that every entry of children is a description node.
BuilderNormalization ==
  \A n \in DOMAIN built :
    /\ BuiltAround(built[n])
    /\ \A i \in DOMAIN built[n].children :
         IF IsDescriptionNode(built[n].children[i])
         THEN built[n].node[2].props.children[i] = built[n].children[i]
         ELSE IsTextOf(built[n].node[2].props.children[i], built[n].children[i])
    /\ \A i \in DOMAIN built[n].children :
         IsDescriptionNode(built[n].node[2].props.children[i])

\* C21, amended: every child whose typeof is 'object', a description node or
\* null, is kept as it is, and every other child (string, number, boolean,
\* undefined) is wrapped as a text element with that payload and no children;
\* length and order are those of the given children, and every entry of
\* children is a description node or null.
BuilderKeepsObjects ==
  \A n \in DOMAIN built :
    /\ BuiltAround(built[n])
    /\ \A i \in DOMAIN built[n].children :
         IF built[n].children[i] = Null \/ IsDescriptionNode(built[n].children[i])
         THEN built[n].node[2].props.children[i] = built[n].children[i]
         ELSE IsTextOf(built[n].node[2].props.children[i], built[n].children[i])
    /\ \A i \in DOMAIN built[n].children :
         \/ IsDescriptionNode(built[n].node[2].props.children[i])
         \/ built[n].node[2].props.children[i] = Null

\* A node has been built from null followed by a number
BuiltFromNull ==
  /\ built # <<>>
  /\ built[1].children = <<Null, Num(0)>>
  /\ built[1].node[2].props.children[1] = Null

AfterShortestTick == workLoop(State, 0)

\* C23: while a call of render awaits its commit, the next idle callback is
\* requested, and even one whose deadline reports no time processes a unit
\* or commits, and ends without an exception: as a pass has finitely many
\* units, every call of render not followed by another is committed after
\* finitely many idle callbacks.
Progress ==
  wipRoot # 0 =>
    /\ armed
    /\ AfterShortestTick.err = NoError
    /\ \/ AfterShortestTick.wipRoot = 0
       \/ Len(AfterShortestTick.visited) = Len(visited) + 1

\* The same, of the passes in which nothing has thrown and of the idle
\* callbacks in which nothing throws
ProgressUnlessThrown ==
  wipRoot # 0 /\ err = NoError =>
    /\ armed
    /\ \/ AfterShortestTick.err # NoError
       \/ AfterShortestTick.wipRoot = 0
       \/ Len(AfterShortestTick.visited) = Len(visited) + 1

\* ------------------------------------------------------------------- C24
\* The fibers below f and its later siblings, each before its children and
\* its children before its next sibling
RECURSIVE PreorderFrom(_, _)
PreorderFrom(fs, f) ==
  IF f = 0 THEN <<>>
  ELSE <<f>> \o PreorderFrom(fs, fs[f].child) \o PreorderFrom(fs, fs[f].sibling)

Preorder(fs, root) ==
  IF root = 0 THEN <<>> ELSE <<root>> \o PreorderFrom(fs, fs[root].child)

\* The root of the pass visited records: the one in hand, or the committed one
PassRoot == IF wipRoot # 0 THEN wipRoot ELSE oldRoot

IsPrefix(s, t) == Len(s) <= Len(t) /\ \A i \in DOMAIN s : s[i] = t[i]

\* C24: at every point of a pass, between any two idle callbacks, the units
\* processed so far are the first units of the tree in depth-first
\* pre-order, each once, and the next unit is the one that follows them in
\* that order, null exactly when all have been processed.
TraversalOrder ==
  /\ IsPrefix(visited, Preorder(fibers, PassRoot))
  /\ err = NoError =>
       IF Len(visited) < Len(Preorder(fibers, PassRoot))
       THEN nextUnitOfWork = Preorder(fibers, PassRoot)[Len(visited) + 1]
       ELSE nextUnitOfWork = 0

\* A pass has gone from a unit to the sibling of one of its ancestors, and it
\* is complete
ClimbedAndDone ==
  /\ wipRoot = 0
  /\ err = NoError
  /\ \E i \in DOMAIN visited :
       /\ i + 1 \in DOMAIN visited
       /\ fibers[visited[i]].child = 0
       /\ fibers[visited[i]].sibling = 0
       /\ fibers[visited[i + 1]].parent # fibers[visited[i]].parent

\* ------------------------------------------------------------------- C25
\* The elements reconcileChildren was called with for the fiber p: its
\* children, or what its component returns
ElementsOf(p) ==
  IF InstanceofFunction(fibers[p].type)
  THEN <<CallComponent([State EXCEPT !.wipFiber = p, !.hookIndex = 0,
                                     !.fibers[p].hooks = <<>>],
                       fibers[p].type).result>>
  ELSE fibers[p].props.children

\* f and its later siblings, in order
RECURSIVE SiblingChain(_, _)
SiblingChain(fs, f) ==
  IF f = 0 THEN <<>> ELSE <<f>> \o SiblingChain(fs, fs[f].sibling)

\* The committed children the elements of p are compared with
OldChain(p) ==
  IF fibers[p].alternate = 0 THEN <<>>
  ELSE SiblingChain(fibers, fibers[fibers[p].alternate].child)

NewChain(p) == SiblingChain(fibers, fibers[p].child)

\* The positions of elements that hold a description
Described(elements) == {i \in DOMAIN elements : Truthy(elements[i])}

\* The new fiber of the description at position i
UnitOf(p, i) ==
  NewChain(p)[Cardinality({j \in Described(ElementsOf(p)) : j <= i})]

\* The fiber u was made for element, the description at position i of p
ClassifiedAs(p, i, u, element) ==
  /\ fibers[u].type = ElementType(element)
  /\ fibers[u].props = ElementProps(element)
  /\ fibers[u].parent = p
  /\ IF /\ i \in DOMAIN OldChain(p)
        /\ fibers[OldChain(p)[i]].type = ElementType(element)
     THEN /\ fibers[u].effectTag = "UPDATE"
          /\ fibers[u].alternate = OldChain(p)[i]
          /\ fibers[u].dom = fibers[OldChain(p)[i]].dom
     ELSE /\ fibers[u].effectTag = "PLACEMENT"
          /\ fibers[u].alternate = 0
          /\ ~Contains(visited, u) => fibers[u].dom = 0
  /\ i \in DOMAIN OldChain(p) => ~Contains(deletions, OldChain(p)[i])

ClassifiedAt(p, i) == ClassifiedAs(p, i, UnitOf(p, i), ElementsOf(p)[i])

DeletedAt(p, i) ==
  /\ fibers[OldChain(p)[i]].effectTag = "DELETION"
  /\ Contains(deletions, OldChain(p)[i])
  /\ ~Contains(NewChain(p), OldChain(p)[i])

PlacedOverOtherKind ==
  \E n \in DOMAIN visited :
    \E i \in Described(ElementsOf(visited[n])) \cap DOMAIN OldChain(visited[n]) :
      fibers[UnitOf(visited[n], i)].effectTag = "PLACEMENT"

\* ------------------------------------------------------------------- C26
\* A step in which commitRoot was called
CommitAttempted == ~Rendered /\ armed /\ wipRoot # 0 /\ nextUnitOfWork' = 0

\* No removal follows an insertion or an update among the calls of a commit
RemovalsFirst ==
  \A i, j \in DOMAIN mutations :
    mutations[i][1] = "removeChild" /\ mutations[j][1] # "removeChild" => i < j

\* The fibers of the tree under root whose commit changes the host
Effective(fs, root) ==
  {f \in Tree(fs, root) \ {root} :
     fs[f].dom # 0 /\ fs[f].effectTag \in {"PLACEMENT", "UPDATE"}}

\* C26: in every commit the removals of the deleted units come before every
\* insertion and update of the tree, and the roots are swapped only after
\* all of them: a commit that swapped the roots has made one removal per
\* deleted unit and then one insertion or update per unit of the tree that
\* has one to make, and a commit that stopped short has swapped nothing.
CommitOrder ==
  [][CommitAttempted =>
       /\ RemovalsFirst'
       /\ Committed =>
            /\ Len(mutations') =
                 Len(deletions') + Cardinality(Effective(fibers', oldRoot'))
            /\ \A i \in DOMAIN deletions' : mutations'[i][1] = "removeChild"
       /\ ~Committed => oldRoot' = oldRoot /\ wipRoot' = wipRoot]_vars

\* A commit has removed a host node and then changed another
RemovedThenChanged ==
  /\ wipRoot = 0
  /\ \E i, j \in DOMAIN mutations :
       mutations[i][1] = "removeChild" /\ mutations[j][1] # "removeChild"

\* ------------------------------------------------------------------- C27
\* The host node of the nearest ancestor of f that has one
HostOfAncestor(fs, f) == fs[DomParentFiber(fs, fs[f].parent)].dom

\* The host nodes of the fibers below f, f excluded
HostsBelow(fs, f) == {fs[g].dom : g \in Chain(fs, fs[f].child)} \ {0}

\* The commit has made, for the deleted component d, the one removal of its
\* first host node from the host node of its nearest ancestor, and no other
\* removal below d
RemovedThrough(fs, calls, d) ==
  /\ FirstHost(fs, d) # 0 =>
       Cardinality({i \in DOMAIN calls :
                      calls[i] = <<"removeChild", HostOfAncestor(fs, d),
                                   FirstHost(fs, d)>>}) = 1
  /\ \A i \in DOMAIN calls :
       calls[i][1] = "removeChild" /\ calls[i][3] \in HostsBelow(fs, d) =>
         calls[i][3] = FirstHost(fs, d)

DeletedComponents(fs, dels) ==
  {dels[i] : i \in {j \in DOMAIN dels : InstanceofFunction(fs[dels[j]].type)}}

\* C27: a commit whose deletions hold a component fiber goes down its child
\* links to the first fiber with a host node, removes that node from the host
\* node of the nearest ancestor that has one, and stops there; it does so
\* without an exception for every deleted component, also for one that
\* returned no child.
ComponentDeletion ==
  [][CommitAttempted =>
       \A d \in DeletedComponents(fibers', deletions') :
         /\ err' = NoError
         /\ RemovedThrough(fibers', mutations', d)]_vars

\* The same, of the deleted components that have a fiber with a host node
\* below them
ComponentDeletionWithHost ==
  [][CommitAttempted =>
       \A d \in DeletedComponents(fibers', deletions') :
         FirstHost(fibers', d) # 0 =>
           /\ err' = NoError
           /\ RemovedThrough(fibers', mutations', d)]_vars

\* A component with a host node below it has been deleted and committed
ComponentWithHostDeleted ==
  /\ wipRoot = 0
  /\ \E d \in DeletedComponents(fibers, deletions) : FirstHost(fibers, d) # 0

\* ------------------------------------------------------------------- C28
\* The host nodes of the deleted fiber d and of the fibers below it
SubtreeHosts(fs, d) == ({fs[d].dom} \cup HostsBelow(fs, d)) \ {0}

\* The calls of the commit that have the host node h as their object
CallsOn(calls, h) == {k \in DOMAIN calls : calls[k][3] = h}

\* C28: a commit does nothing with a deleted unit but remove its first host
\* node: no host node of the deleted unit or below it is inserted or
\* updated, and none is removed but that one, once, whatever effect tags the
\* fibers below the deleted unit carry.
DeletionStopsCommit ==
  [][CommitAttempted =>
       \A i \in DOMAIN deletions' :
         \A h \in SubtreeHosts(fibers', deletions'[i]) :
           /\ Cardinality(CallsOn(mutations', h)) <= 1
           /\ \A k \in CallsOn(mutations', h) :
                /\ mutations'[k][1] = "removeChild"
                /\ h = FirstHost(fibers', deletions'[i])]_vars

\* A unit has been deleted and committed whose children carry the PLACEMENT
\* or UPDATE tag of their own commit
TaggedSubtreeDeleted ==
  /\ wipRoot = 0
  /\ \E i \in DOMAIN deletions :
       /\ Contains(mutations, <<"removeChild",
                                HostOfAncestor(fibers, deletions[i]),
                                FirstHost(fibers, deletions[i])>>)
       /\ \E g \in Chain(fibers, fibers[deletions[i]].child) :
            fibers[g].dom # 0 /\ fibers[g].effectTag \in {"PLACEMENT", "UPDATE"}

\* ------------------------------------------------------------------- C29
\* The nearest fiber above f that has a host node (0 when there is none)
RECURSIVE NearestHostAncestor(_, _)
NearestHostAncestor(fs, f) ==
  IF fs[f].parent = 0 THEN 0
  ELSE IF fs[fs[f].parent].dom # 0 THEN fs[f].parent
  ELSE NearestHostAncestor(fs, fs[f].parent)

\* The fibers of the tree under root that a commit has to insert
Placed(fs, root) ==
  {f \in Tree(fs, root) \ {root} : fs[f].effectTag = "PLACEMENT" /\ fs[f].dom # 0}

\* The call that inserts the host node of f into that of its nearest ancestor
\* that has one
InsertionOf(fs, f) ==
  <<"appendChild", fs[NearestHostAncestor(fs, f)].dom, fs[f].dom>>

\* C29: every insertion a commit makes puts the host node of a PLACEMENT unit
\* of the tree into the host node of the nearest ancestor that has one,
\* whatever components lie between them; a commit that ran to its end has
\* made that insertion once for each such unit and left the node there, and
\* none for a unit without a host node; the nearest ancestor with a host node
\* always exists, in the tree, the root with the container being the last.
PlacementTarget ==
  [][CommitAttempted =>
       /\ \A f \in Tree(fibers', PassRoot') \ {PassRoot'} :
            NearestHostAncestor(fibers', f) \in Tree(fibers', PassRoot')
       /\ fibers'[PassRoot'].dom = Container
       /\ \A k \in DOMAIN mutations' :
            mutations'[k][1] = "appendChild" =>
              \E f \in Placed(fibers', PassRoot') :
                mutations'[k] = InsertionOf(fibers', f)
       /\ Committed =>
            \A f \in Placed(fibers', PassRoot') :
              /\ Cardinality({k \in DOMAIN mutations' :
                                mutations'[k] = InsertionOf(fibers', f)}) = 1
              /\ Contains(doms'[fibers'[NearestHostAncestor(fibers', f)].dom].children,
                          fibers'[f].dom)]_vars

\* A commit has inserted the host node of a unit whose parent is a component
\* below another unit with a host node
PlacedBelowComponent ==
  /\ wipRoot = 0
  /\ oldRoot # 0
  /\ \E f \in Placed(fibers, oldRoot) :
       /\ fibers[fibers[f].parent].dom = 0
       /\ NearestHostAncestor(fibers, f) # oldRoot
       /\ Contains(mutations, InsertionOf(fibers, f))

\* ------------------------------------------------------------------- C30
\* The fibers that have been processed: those of the committed tree and
\* those of the pass in hand that performNextUnitOfWork was called with
Processed ==
  Tree(fibers, oldRoot) \cup {visited[n] : n \in DOMAIN visited}

\* C30: in every state a fiber whose type is a function has no host node, in
\* the tree in hand, in the committed tree and in every earlier one; every
\* other fiber that has been processed has a host node.
ComponentsHaveNoHostNode ==
  /\ \A f \in DOMAIN fibers :
       InstanceofFunction(fibers[f].type) => fibers[f].dom = 0
  /\ \A f \in Processed :
       ~InstanceofFunction(fibers[f].type) => fibers[f].dom \in DOMAIN doms

\* The third generation of a tree with a component has been committed
ThirdComponentGeneration ==
  /\ renders = 3
  /\ wipRoot = 0
  /\ \E f \in Tree(fibers, oldRoot) :
       /\ InstanceofFunction(fibers[f].type)
       /\ fibers[f].alternate # 0
       /\ fibers[fibers[f].alternate].alternate # 0
       /\ fibers[f].child # 0

\* ------------------------------------------------------------------- C31
\* The calls of Didact.useState one evaluation of the component makes
AccessorCalls(type) == IF type = CounterFn THEN 2 ELSE 0

\* The components among the fibers the pass has processed, in that order
VisitedComponents ==
  SelectSeq(visited, LAMBDA f : InstanceofFunction(fibers[f].type))

\* The component fiber f holds the hooks of one evaluation, and chain, its
\* children, the fiber of what the evaluation returned
EvaluatedOnce(f, returned, chain) ==
  /\ Len(fibers[f].hooks) = AccessorCalls(fibers[f].type)
  /\ Len(chain) <= 1
  /\ Len(chain) = Cardinality(Described(returned))
  /\ \A c \in DOMAIN chain :
       /\ fibers[chain[c]].type = ElementType(returned[1])
       /\ fibers[chain[c]].props = ElementProps(returned[1])

\* C31: every component fiber the pass has processed has as many hooks as
\* one evaluation of its function calls useState, and as its only child the
\* fiber of what the function returned (none when it returned null); while
\* the latest of them is wipFiber, hookIndex is the length of its hooks list:
\* the cursor started from zero and the list from empty, and the function was
\* called once.
ComponentProcessing ==
  /\ \A n \in DOMAIN VisitedComponents :
       EvaluatedOnce(VisitedComponents[n], ElementsOf(VisitedComponents[n]),
                     NewChain(VisitedComponents[n]))
  /\ VisitedComponents # <<>> =>
       /\ wipFiber = VisitedComponents[Len(VisitedComponents)]
       /\ hookIndex = Len(fibers[wipFiber].hooks)

\* A Counter has been processed over the Counter of the committed tree
CounterProcessedAgain ==
  /\ VisitedComponents # <<>>
  /\ fibers[wipFiber].type = CounterFn
  /\ fibers[wipFiber].alternate # 0
  /\ Len(fibers[fibers[wipFiber].alternate].hooks) = 2
  /\ hookIndex = 2
  /\ fibers[wipFiber].child # 0

\* ------------------------------------------------------------------- C32
\* The committed fibers the pass in hand has compared with no description
CollectedBy(p) ==
  {OldChain(p)[i] : i \in DOMAIN OldChain(p) \ Described(ElementsOf(p))}

Collected == UNION {CollectedBy(visited[n]) : n \in DOMAIN visited}

\* The list dels holds the fibers of the set collected, each once, all of
\* them in the set committed and tagged DELETION in fs
OwnedBy(dels, collected, committed, fs) ==
  /\ \A i \in DOMAIN dels :
       /\ dels[i] \in committed
       /\ dels[i] \in collected
       /\ fs[dels[i]].effectTag = "DELETION"
  /\ \A i, j \in DOMAIN dels : dels[i] = dels[j] => i = j
  /\ collected \subseteq {dels[i] : i \in DOMAIN dels}

\* render was called and no unit has been processed since
JustRendered == wipRoot # 0 /\ nextUnitOfWork = wipRoot /\ visited = <<>>

\* The pass has processed its last unit, and commitRoot was called
PassDone == nextUnitOfWork = 0 /\ visited # <<>>

\* The fibers of the tree that was committed while the pass ran: commitRoot
\* makes the root of the pass the committed one when it returns
CommittedBefore ==
  IF wipRoot # 0 THEN Tree(fibers, oldRoot)
  ELSE Tree(fibers, fibers[oldRoot].alternate)

\* C32: every call of render empties deletions, and a commit finds in it
\* only fibers of the committed tree that the pass it commits has collected,
\* tagged DELETION, each once: none is left from an earlier or an abandoned
\* pass.
DeletionSetOwned ==
  /\ JustRendered => deletions = <<>>
  /\ PassDone => OwnedBy(deletions, Collected, CommittedBefore, fibers)

\* A pass that deleted a unit has been committed after another pass, which
\* had collected a unit as well, was abandoned
DeletionAfterAbandonedDeletion ==
  /\ wipRoot = 0
  /\ deletions # <<>>
  /\ \E f \in DOMAIN fibers :
       /\ fibers[f].parent = 0
       /\ f \notin Alternates(fibers, oldRoot)
       /\ fibers[f].child # 0
       /\ fibers[fibers[f].child].alternate # 0
       /\ fibers[fibers[fibers[f].child].alternate].child # 0
       /\ Len(SiblingChain(fibers, fibers[fibers[fibers[f].child].alternate].child))
            > Len(SiblingChain(fibers, fibers[fibers[f].child].child))
       /\ fibers[fibers[f].child].child # 0

\* ------------------------------------------------------------------- C33
\* C33: no commit calls removeChild with a node that is not a child of the
\* parent it was called on: every removal of a commit has as its object a
\* node that was a child of that parent when the commit began and is not one
\* after it, and no commit ends with the NotFoundError of removeChild.
RemovalsHitChildren ==
  [][CommitAttempted =>
       /\ err' # "NotFoundError"
       /\ \A k \in DOMAIN mutations' :
            mutations'[k][1] = "removeChild" =>
              /\ Contains(doms[mutations'[k][2]].children, mutations'[k][3])
              /\ ~Contains(doms'[mutations'[k][2]].children, mutations'[k][3])]_vars

\* A commit has removed a host node after a pass was abandoned
RemovalAfterRestart ==
  /\ wipRoot = 0
  /\ AbandonedRoots # {}
  /\ \E k \in DOMAIN mutations : mutations[k][1] = "removeChild"

\* ------------------------------------------------------------------- C34
\* The state after the loop of an idle callback has processed units from
\* here, before any commit
AfterLoop(budget) == workLoopWhile(State, budget)

\* The fiber f is in S what it is now, but for a DELETION tag it has got
KeptBut(S, f) ==
  /\ S.fibers[f].type = fibers[f].type
  /\ S.fibers[f].props = fibers[f].props
  /\ S.fibers[f].dom = fibers[f].dom
  /\ S.fibers[f].parent = fibers[f].parent
  /\ S.fibers[f].child = fibers[f].child
  /\ S.fibers[f].sibling = fibers[f].sibling
  /\ S.fibers[f].alternate = fibers[f].alternate
  /\ S.fibers[f].hooks = fibers[f].hooks
  /\ S.fibers[f].effectTag \in {fibers[f].effectTag, "DELETION"}

\* S differs from the state in hand neither in the committed tree, but for
\* DELETION tags, nor in the host nodes attached under the container
FrameKept(S) ==
  /\ \A f \in Tree(fibers, oldRoot) : KeptBut(S, f)
  /\ \A d \in {Container} \cup Below(doms, Container) : S.doms[d] = doms[d]
  /\ S.oldRoot = oldRoot

\* C34: processing a unit of a pass changes nothing of the committed tree but
\* effect tags, which it may set to DELETION, and nothing of the host nodes
\* attached under the container: neither their attributes, nor their
\* listeners, nor their children. A loop that processes several units goes
\* through states the loop of the shortest idle period ends in, so the units
\* are taken one at a time.
RenderPhaseFrame == FrameKept(AfterLoop(0))

\* The loop is about to tag a committed fiber and to create host nodes
AboutToTagCommitted ==
  /\ oldRoot # 0
  /\ wipRoot # 0
  /\ Len(AfterLoop(MaxBudget).deletions) > Len(deletions)
  /\ \E f \in Tree(fibers, oldRoot) :
       AfterLoop(MaxBudget).fibers[f].effectTag # fibers[f].effectTag

\* ------------------------------------------------------------------- C35
\* The component fibers made for a placement that have been evaluated
PlacedComponents ==
  {f \in DOMAIN fibers :
     /\ InstanceofFunction(fibers[f].type)
     /\ fibers[f].alternate = 0
     /\ fibers[f].hooks # <<>>}

LinksTo(fs, tree, c) ==
  {<<u, "child">> : u \in {v \in tree : fs[v].child = c}}
    \cup {<<u, "sibling">> : u \in {v \in tree : fs[v].sibling = c}}

\* Under root every child of a fiber has it as its parent, every fiber but
\* the root is the object of exactly one link, and the root of none
WellFormedOver(fs, root, tree) ==
  /\ \A u \in tree :
       \A i \in DOMAIN SiblingChain(fs, fs[u].child) :
         fs[SiblingChain(fs, fs[u].child)[i]].parent = u
  /\ \A c \in tree \ {root} : Cardinality(LinksTo(fs, tree, c)) = 1
  /\ root # 0 =>
       /\ LinksTo(fs, tree, root) = {}
       /\ fs[root].parent = 0
       /\ fs[root].sibling = 0

WellFormed(fs, root) == WellFormedOver(fs, root, Tree(fs, root))

\* C36: in every state the fibers under wipRoot and those under oldRoot form
\* a tree each: the fibers on the sibling chain of a fiber's child have that
\* fiber as parent, no fiber is linked twice and none lies on a cycle; and
\* no step changes the alternate of a fiber that exists.
UnitTreeWellFormed ==
  [][/\ WellFormed(fibers', wipRoot')
     /\ WellFormed(fibers', oldRoot')
     /\ \A f \in DOMAIN fibers : fibers'[f].alternate = fibers[f].alternate]_vars

\* A pass is under way over a committed tree, with fibers of three levels
\* made and a committed fiber tagged for deletion
TwoTreesInHand ==
  /\ wipRoot # 0
  /\ oldRoot # 0
  /\ deletions # <<>>
  /\ Cardinality(Tree(fibers, wipRoot)) >= 3
  /\ Cardinality(Tree(fibers, oldRoot)) >= 4
  /\ \E f \in Tree(fibers, wipRoot) : fibers[f].alternate \in Tree(fibers, oldRoot)

====
